---------------------------- MODULE Spec2Model ----------------------------
(***************************************************************************)
(* Status-bar manager (src/index.ts): a registry of bindings, each linking *)
(* one worldbook entry to one Tavern regex, with a paired enable/disable   *)
(* toggle, live-state reconciliation and a regex import that retags the    *)
(* newly created regexes with the managed prefix.                          *)
(*                                                                         *)
(* Strings that the code inspects (script names, prompt input, labels) are *)
(* sequences of one-character strings; worldbook names and entry names,    *)
(* which the code only compares and copies, are TLA+ strings.              *)
(***************************************************************************)
EXTENDS Integers, Sequences, FiniteSets, TLC

VARIABLES
    worldbooks,  \* external worldbook store: name -> [readable, entries]
    regexes,     \* external regex store: the list getTavernRegexes() returns
    bindings,    \* settings.bindings, the in-memory registry
    saved,       \* the registry last written by saveSettings
    nextId,      \* the identity generator SillyTavern.uuidv4()
    cr,          \* the createBinding click handlers in flight
    tg,          \* the toggleBinding click handler in flight
    rn,          \* the renameStyle click handler in flight
    ev,          \* the last step taken and what it returned
    events       \* how many clicks and external changes have happened

vars == <<worldbooks, regexes, bindings, saved, nextId, cr, tg, rn, ev, events>>

---------------------------------------------------------------------------
(* Bounds of the model *)

MaxUid == 2        \* entry uids are 1..MaxUid
MaxRules == 2      \* regex ids are RuleId(1)..RuleId(MaxRules)
MaxIds == 3        \* uuidv4 hands out the ids 1..MaxIds
MaxCreates == 2    \* createBinding handlers in flight at once
MaxEvents == 3     \* clicks and external changes in one behaviour

---------------------------------------------------------------------------
(* Values *)

\* '[状态栏] ': six characters, the CJK ones written by their pinyin.
REGEX_PREFIX == <<"[", "zhuang", "tai", "lan", "]", " ">>

\* boolean | null, as getBindingLiveState reports it
NULL == "null"
Tri(b) == IF b THEN "true" ELSE "false"

Uids == 1..MaxUid
UidStr(u) == <<"1", "2", "3", "4", "5">>[u]
\* `未命名条目-${uid}`
UnnamedEntry(u) == <<"unnamed-1", "unnamed-2", "unnamed-3", "unnamed-4", "unnamed-5">>[u]
RuleId(i) == <<"r1", "r2", "r3", "r4", "r5", "r6", "r7", "r8">>[i]
RuleIds == {RuleId(i) : i \in 1..MaxRules}
WbNames == {"wb1", "wb2"}

\* An entry's display name; the entry with uid 2 is unnamed.
EntryNameOf(u) == IF u = 2 THEN "" ELSE "hp"

Range(s) == {s[i] : i \in DOMAIN s}

SeqsUpTo(S, n) == UNION {[1..k -> S] : k \in 0..n}

---------------------------------------------------------------------------
(* Naming policy *)

startsWith(s, p) == Len(s) >= Len(p) /\ SubSeq(s, 1, Len(p)) = p

\* a plausible slip: the prefix is added without looking
ensureRegexPrefix_always(scriptName) == REGEX_PREFIX \o scriptName

ensureRegexPrefix(scriptName) ==
    IF startsWith(scriptName, REGEX_PREFIX)
    THEN scriptName
    ELSE REGEX_PREFIX \o scriptName

getManagedRegexes(regs) ==
    SelectSeq(regs, LAMBDA item : startsWith(item.script_name, REGEX_PREFIX))

\* Array.prototype.find on the regex list: the index of the first regex with
\* this id, 0 for undefined
getRegexById(regs, regexId) ==
    IF \E i \in DOMAIN regs : regs[i].id = regexId
    THEN CHOOSE i \in DOMAIN regs :
            /\ regs[i].id = regexId
            /\ \A j \in 1..(i - 1) : regs[j].id # regexId
    ELSE 0

---------------------------------------------------------------------------
(* The external worldbook store *)

\* getWorldbook(name): throws when the worldbook cannot be read (deleted,
\* renamed, I/O failure)
getWorldbook(wbs, name) ==
    IF name \in DOMAIN wbs /\ wbs[name].readable
    THEN [threw |-> FALSE, entries |-> wbs[name].entries]
    ELSE [threw |-> TRUE, entries |-> <<>>]

\* worldbook.find(item => item.uid === uid): index of the first, 0 for undefined
findEntry(entries, uid) ==
    IF \E i \in DOMAIN entries : entries[i].uid = uid
    THEN CHOOSE i \in DOMAIN entries :
            /\ entries[i].uid = uid
            /\ \A j \in 1..(i - 1) : entries[j].uid # uid
    ELSE 0

---------------------------------------------------------------------------
(* Live-state reconciler *)

\* a plausible slip: the worldbook read is not wrapped in try/catch
getBindingLiveState_nocatch(wbs, regs, binding) ==
    LET read == getWorldbook(wbs, binding.worldbook_name)
        e == findEntry(read.entries, binding.worldbook_entry_uid)
        r == getRegexById(regs, binding.regex_id)
    IN  [threw |-> read.threw,
         worldbook_enabled |-> IF e # 0 THEN Tri(read.entries[e].enabled) ELSE NULL,
         regex_enabled |-> IF r # 0 THEN Tri(regs[r].enabled) ELSE NULL]

\* a plausible slip: a missing reference is reported as disabled
getBindingLiveState_false(wbs, regs, binding) ==
    LET read == getWorldbook(wbs, binding.worldbook_name)
        e == findEntry(read.entries, binding.worldbook_entry_uid)
        r == getRegexById(regs, binding.regex_id)
    IN  [threw |-> FALSE,
         worldbook_enabled |->
            IF ~read.threw /\ e # 0 THEN Tri(read.entries[e].enabled) ELSE "false",
         regex_enabled |-> IF r # 0 THEN Tri(regs[r].enabled) ELSE "false"]

getBindingLiveState(wbs, regs, binding) ==
    LET read == getWorldbook(wbs, binding.worldbook_name)
        e == findEntry(read.entries, binding.worldbook_entry_uid)
        r == getRegexById(regs, binding.regex_id)
    IN  [threw |-> FALSE,     \* the catch block swallows the read's error
         worldbook_enabled |->
            IF ~read.threw /\ e # 0 THEN Tri(read.entries[e].enabled) ELSE NULL,
         regex_enabled |-> IF r # 0 THEN Tri(regs[r].enabled) ELSE NULL]

---------------------------------------------------------------------------
(* Dual-resource toggle *)

\* a plausible slip: the entry is taken by its position (the binding's uid as an
\* index into the list) instead of by its uid
SetWorldbookSide_position(wbs, binding, enabled) ==
    LET name == binding.worldbook_name
        read == getWorldbook(wbs, name)
        hit(i) == i = binding.worldbook_entry_uid
    IN  IF read.threw
        THEN [threw |-> TRUE, worldbooks |-> wbs, worldbookMatched |-> FALSE]
        ELSE [threw |-> FALSE,
              worldbooks |->
                [wbs EXCEPT ![name].entries =
                    [i \in DOMAIN read.entries |->
                        IF hit(i)
                        THEN [read.entries[i] EXCEPT !.enabled = enabled]
                        ELSE read.entries[i]]],
              worldbookMatched |-> \E i \in DOMAIN read.entries : hit(i)]

\* updateWorldbookWith(binding.worldbook_name, ...): throws when the worldbook
\* cannot be read; otherwise replaces the entries by the updater's result
SetWorldbookSide(wbs, binding, enabled) ==
    LET name == binding.worldbook_name
        read == getWorldbook(wbs, name)
        hit(entry) == entry.uid = binding.worldbook_entry_uid
    IN  IF read.threw
        THEN [threw |-> TRUE, worldbooks |-> wbs, worldbookMatched |-> FALSE]
        ELSE [threw |-> FALSE,
              worldbooks |->
                [wbs EXCEPT ![name].entries =
                    [i \in DOMAIN read.entries |->
                        IF hit(read.entries[i])
                        THEN [read.entries[i] EXCEPT !.enabled = enabled]
                        ELSE read.entries[i]]],
              worldbookMatched |-> \E i \in DOMAIN read.entries : hit(read.entries[i])]

\* a plausible slip: the name is repaired only when the flag changes
SetRegexSide_whenChanged(regs, binding, enabled) ==
    LET hit(regex) == regex.id = binding.regex_id
    IN  [regexes |->
            [i \in DOMAIN regs |->
                IF hit(regs[i]) /\ regs[i].enabled # enabled
                THEN [regs[i] EXCEPT !.enabled = enabled,
                                     !.script_name = ensureRegexPrefix(@)]
                ELSE regs[i]],
         regexMatched |-> \E i \in DOMAIN regs : hit(regs[i])]

\* a plausible slip: the flag is flipped instead of set
SetRegexSide_flip(regs, binding, enabled) ==
    LET hit(regex) == regex.id = binding.regex_id
    IN  [regexes |->
            [i \in DOMAIN regs |->
                IF hit(regs[i])
                THEN [regs[i] EXCEPT !.enabled = ~@,
                                     !.script_name = ensureRegexPrefix(@)]
                ELSE regs[i]],
         regexMatched |-> \E i \in DOMAIN regs : hit(regs[i])]

\* a plausible slip: the regex is taken by its position in the list
SetRegexSide_position(regs, binding, enabled) ==
    LET hit(i) == RuleId(i) = binding.regex_id
    IN  [regexes |->
            [i \in DOMAIN regs |->
                IF hit(i)
                THEN [regs[i] EXCEPT !.enabled = enabled,
                                     !.script_name = ensureRegexPrefix(@)]
                ELSE regs[i]],
         regexMatched |-> \E i \in DOMAIN regs : hit(i)]

\* a plausible slip: the name of every regex is repaired, matched or not
SetRegexSide_repairAll(regs, binding, enabled) ==
    LET hit(regex) == regex.id = binding.regex_id
    IN  [regexes |->
            [i \in DOMAIN regs |->
                IF hit(regs[i])
                THEN [regs[i] EXCEPT !.enabled = enabled,
                                     !.script_name = ensureRegexPrefix(@)]
                ELSE [regs[i] EXCEPT !.script_name = ensureRegexPrefix(@)]],
         regexMatched |-> \E i \in DOMAIN regs : hit(regs[i])]

\* updateTavernRegexesWith(...): the regex with the binding's id gets the
\* enabled flag and a repaired name
SetRegexSide(regs, binding, enabled) ==
    LET hit(regex) == regex.id = binding.regex_id
    IN  [regexes |->
            [i \in DOMAIN regs |->
                IF hit(regs[i])
                THEN [regs[i] EXCEPT !.enabled = enabled,
                                     !.script_name = ensureRegexPrefix(@)]
                ELSE regs[i]],
         regexMatched |-> \E i \in DOMAIN regs : hit(regs[i])]

\* the final test of setBindingEnabled
\* a plausible slip: || for &&
NeitherMatched_either(worldbookMatched, regexMatched) ==
    ~worldbookMatched \/ ~regexMatched

NeitherMatched(worldbookMatched, regexMatched) ==
    ~worldbookMatched /\ ~regexMatched

\* setBindingEnabled run from start to end with the stores left alone
setBindingEnabled(wbs, regs, binding, enabled) ==
    LET w == SetWorldbookSide(wbs, binding, enabled)
        r == SetRegexSide(regs, binding, enabled)
    IN  IF w.threw
        THEN [threw |-> TRUE, worldbooks |-> wbs, regexes |-> regs,
              regexIssued |-> FALSE,
              worldbookMatched |-> FALSE, regexMatched |-> FALSE]
        ELSE [threw |-> NeitherMatched(w.worldbookMatched, r.regexMatched),
              worldbooks |-> w.worldbooks, regexes |-> r.regexes,
              regexIssued |-> TRUE,
              worldbookMatched |-> w.worldbookMatched,
              regexMatched |-> r.regexMatched]

---------------------------------------------------------------------------
(* The states the two external stores can be in *)

Entries == {[uid |-> u, name |-> EntryNameOf(u), enabled |-> e] :
                u \in Uids, e \in BOOLEAN}

\* a worldbook's entries: any order, no uid twice
EntryLists ==
    {es \in SeqsUpTo(Entries, MaxUid) :
        \A i, j \in DOMAIN es : es[i].uid = es[j].uid => i = j}

Unreadable == [readable |-> FALSE, entries |-> <<>>]

WorldbookStates ==
    {Unreadable} \cup {[readable |-> TRUE, entries |-> es] : es \in EntryLists}

ScriptNames == {<<"a">>, REGEX_PREFIX \o <<"a">>}

Rules == {[id |-> i, script_name |-> n, enabled |-> e] :
                i \in RuleIds, n \in ScriptNames, e \in BOOLEAN}

\* the regex list: any order, no id twice
RuleLists ==
    {rs \in SeqsUpTo(Rules, MaxRules) :
        \A i, j \in DOMAIN rs : rs[i].id = rs[j].id => i = j}

\* the worldbook no binding of the toggle runs refers to
OtherWorldbook ==
    [readable |-> TRUE,
     entries |-> <<[uid |-> 1, name |-> EntryNameOf(1), enabled |-> FALSE]>>]

NoTask == [pc |-> "idle"]

---------------------------------------------------------------------------
(* SpecToggle: getBindingLiveState and setBindingEnabled called on every    *)
(* state of the two stores, each call run to its end with the stores left  *)
(* alone meanwhile.                                                        *)

\* the bindings the calls are made with: entry and regex may or may not exist
ToggleBindings ==
    {[id |-> 0, label |-> <<>>, worldbook_name |-> "wb1",
      worldbook_entry_uid |-> u, worldbook_entry_name |-> EntryNameOf(u),
      regex_id |-> r, regex_script_name |-> <<"a">>] :
        u \in {1, 2}, r \in {RuleId(1), RuleId(2)}}

InitToggle ==
    /\ worldbooks \in {[n \in WbNames |-> IF n = "wb1" THEN w ELSE OtherWorldbook] :
                            w \in WorldbookStates}
    /\ regexes \in RuleLists
    /\ bindings = <<>>
    /\ saved = <<>>
    /\ nextId = 1
    /\ cr = <<>>
    /\ tg = NoTask
    /\ rn = NoTask
    /\ ev = [op |-> "init"]
    /\ events = 0

CallGetBindingLiveState(b) ==
    /\ ev' = [op |-> "getBindingLiveState", binding |-> b,
              result |-> getBindingLiveState(worldbooks, regexes, b)]
    /\ UNCHANGED <<worldbooks, regexes, bindings, saved, nextId, cr, tg, rn, events>>

CallSetBindingEnabled(b, enabled) ==
    LET res == setBindingEnabled(worldbooks, regexes, b, enabled)
    IN  /\ worldbooks' = res.worldbooks
        /\ regexes' = res.regexes
        /\ ev' = [op |-> "setBindingEnabled", binding |-> b, enabled |-> enabled,
                  threw |-> res.threw, regexIssued |-> res.regexIssued,
                  worldbookMatched |-> res.worldbookMatched,
                  regexMatched |-> res.regexMatched,
                  regexBefore |-> IF getRegexById(regexes, b.regex_id) = 0
                                  THEN [id |-> NULL]
                                  ELSE regexes[getRegexById(regexes, b.regex_id)]]
        /\ UNCHANGED <<bindings, saved, nextId, cr, tg, rn, events>>

\* the toggleBinding handler, lines 604-612, for a binding of the registry,
\* run to its end: live state, target, setBindingEnabled, catch
CallToggle(b) ==
    LET live == getBindingLiveState(worldbooks, regexes, b)
        targetEnabled ==
            ~(live.worldbook_enabled = "true" /\ live.regex_enabled = "true")
        res == setBindingEnabled(worldbooks, regexes, b, targetEnabled)
    IN  /\ worldbooks' = res.worldbooks
        /\ regexes' = res.regexes
        /\ ev' = [op |-> "toggle",
                  outcome |-> IF res.threw THEN "error" ELSE "ok",
                  binding |-> b, enabled |-> targetEnabled, live |-> live,
                  regexIssued |-> res.regexIssued,
                  worldbookMatched |-> res.worldbookMatched,
                  regexMatched |-> res.regexMatched]
        /\ UNCHANGED <<bindings, saved, nextId, cr, tg, rn, events>>

NextToggle ==
    \/ \E b \in ToggleBindings : CallGetBindingLiveState(b)
    \/ \E b \in ToggleBindings : \E enabled \in BOOLEAN :
            CallSetBindingEnabled(b, enabled)
    \/ \E b \in ToggleBindings : CallToggle(b)

SpecToggle == InitToggle /\ [][NextToggle]_vars

---------------------------------------------------------------------------
(* Claims about the toggle and the reconciler, under SpecToggle *)

EntryExists(wbs, b) ==
    /\ b.worldbook_name \in DOMAIN wbs
    /\ wbs[b.worldbook_name].readable
    /\ \E i \in DOMAIN wbs[b.worldbook_name].entries :
            wbs[b.worldbook_name].entries[i].uid = b.worldbook_entry_uid

RuleExists(regs, b) == \E i \in DOMAIN regs : regs[i].id = b.regex_id

\* C2: setBindingEnabled ends with an error exactly when it matched neither the
\* entry nor the regex; with at least one side matched it ends without error.
C2_ErrorIffNeitherMatched ==
    ev.op = "setBindingEnabled" =>
        /\ ev.threw <=> (~ev.worldbookMatched /\ ~ev.regexMatched)
        /\ (ev.worldbookMatched \/ ev.regexMatched) => ~ev.threw

C2_Witness ==
    /\ ev.op = "setBindingEnabled"
    /\ ~ev.threw
    /\ ~ev.worldbookMatched
    /\ ev.regexMatched

\* C3 (as claimed): when the binding's regex exists and the entry side cannot
\* be resolved (entry absent, or worldbook unreadable), setBindingEnabled(b,
\* TRUE) still issues the regex update, leaves the regex enabled and ends
\* without error.
C3_RuleUpdatedWhenEntryUnresolved ==
    [][(/\ ev'.op = "setBindingEnabled"
        /\ ev'.enabled
        /\ RuleExists(regexes, ev'.binding)
        /\ ~EntryExists(worldbooks, ev'.binding))
       => (/\ ~ev'.threw
           /\ ev'.regexIssued
           /\ \A i \in DOMAIN regexes' :
                regexes'[i].id = ev'.binding.regex_id => regexes'[i].enabled)]_vars

\* C4: after setBindingEnabled(b, TRUE) ends without error, the live state of b
\* is true on each side that matched and is what it was before the call on
\* each side that did not.
C4_LiveStateAfterEnable ==
    [][(ev'.op = "setBindingEnabled" /\ ev'.enabled /\ ~ev'.threw) =>
        LET b == ev'.binding
            before == getBindingLiveState(worldbooks, regexes, b)
            after == getBindingLiveState(worldbooks', regexes', b)
        IN  /\ ~after.threw
            /\ IF ev'.worldbookMatched
               THEN after.worldbook_enabled = "true"
               ELSE after.worldbook_enabled = before.worldbook_enabled
            /\ IF ev'.regexMatched
               THEN after.regex_enabled = "true"
               ELSE after.regex_enabled = before.regex_enabled]_vars

C4_Witness ==
    /\ ev.op = "setBindingEnabled"
    /\ ev.enabled
    /\ ~ev.threw
    /\ ev.worldbookMatched
    /\ ~ev.regexMatched
    /\ getBindingLiveState(worldbooks, regexes, ev.binding).worldbook_enabled = "true"

\* C5: getBindingLiveState never ends with an error; a worldbook read that
\* fails is reported as worldbook_enabled = null.
C5_LiveStateNeverThrows ==
    ev.op = "getBindingLiveState" =>
        /\ ~ev.result.threw
        /\ getWorldbook(worldbooks, ev.binding.worldbook_name).threw
                => ev.result.worldbook_enabled = NULL

C5_Witness ==
    /\ ev.op = "getBindingLiveState"
    /\ getWorldbook(worldbooks, ev.binding.worldbook_name).threw
    /\ ~RuleExists(regexes, ev.binding)

\* C6: worldbook_enabled is null exactly when the worldbook cannot be read or
\* holds no entry with the binding's uid, and is that entry's enabled flag
\* otherwise; regex_enabled is null exactly when no regex has the binding's id,
\* and is that regex's enabled flag otherwise.
C6_LiveStateExact ==
    ev.op = "getBindingLiveState" =>
        LET b == ev.binding
            es == worldbooks[b.worldbook_name].entries
        IN  /\ (ev.result.worldbook_enabled = NULL) <=> ~EntryExists(worldbooks, b)
            /\ EntryExists(worldbooks, b) =>
                \A i \in DOMAIN es : es[i].uid = b.worldbook_entry_uid
                    => ev.result.worldbook_enabled = Tri(es[i].enabled)
            /\ (ev.result.regex_enabled = NULL) <=> ~RuleExists(regexes, b)
            /\ \A i \in DOMAIN regexes : regexes[i].id = b.regex_id
                    => ev.result.regex_enabled = Tri(regexes[i].enabled)

C6_Witness ==
    /\ ev.op = "getBindingLiveState"
    /\ EntryExists(worldbooks, ev.binding)
    /\ ev.result.worldbook_enabled = "false"
    /\ ~RuleExists(regexes, ev.binding)
    /\ ev.result.regex_enabled = NULL

\* C17: whenever setBindingEnabled matches the binding's regex, that regex's
\* script_name starts with the prefix afterwards: it is ensureRegexPrefix of
\* the name it had, for either value of enabled and also when the regex's
\* enabled flag already had the requested value.
C17_MatchedRuleNameRepaired ==
    [][(ev'.op = "setBindingEnabled" /\ ev'.regexMatched) =>
        /\ RuleExists(regexes, ev'.binding)
        /\ \A i \in DOMAIN regexes :
            regexes[i].id = ev'.binding.regex_id =>
                /\ regexes'[i].id = regexes[i].id
                /\ regexes'[i].script_name = ensureRegexPrefix(regexes[i].script_name)
                /\ Len(regexes'[i].script_name) >= Len(REGEX_PREFIX)
                /\ SubSeq(regexes'[i].script_name, 1, Len(REGEX_PREFIX)) = REGEX_PREFIX
                /\ regexes'[i].enabled = ev'.enabled]_vars

\* the matched regex had lost its prefix and already had the requested flag
C17_Witness ==
    /\ ev.op = "setBindingEnabled"
    /\ ev.regexMatched
    /\ ev.regexBefore.id = ev.binding.regex_id
    /\ ev.regexBefore.enabled = ev.enabled
    /\ ev.regexBefore.script_name = <<"a">>
    /\ \E i \in DOMAIN regexes :
            /\ regexes[i].id = ev.binding.regex_id
            /\ regexes[i].script_name = REGEX_PREFIX \o <<"a">>

\* C18: setBindingEnabled is idempotent: for every binding, value of enabled
\* and state of the stores, a second run right after the first, with the same
\* arguments, leaves the stores as the first run left them and ends the same
\* way (success or error).
C18_SetBindingEnabledIdempotent ==
    [][ev'.op = "setBindingEnabled" =>
        LET again == setBindingEnabled(worldbooks', regexes', ev'.binding, ev'.enabled)
        IN  /\ again.worldbooks = worldbooks'
            /\ again.regexes = regexes'
            /\ again.threw = ev'.threw
            /\ (ev.op = "setBindingEnabled" /\ ev.binding = ev'.binding
                    /\ ev.enabled = ev'.enabled) =>
                  /\ worldbooks' = worldbooks
                  /\ regexes' = regexes
                  /\ ev'.threw = ev.threw]_vars

\* a run that changed both sides, followed by its repetition: the repetition
\* found the regex as the first run left it
C18_Witness ==
    /\ ev.op = "setBindingEnabled"
    /\ ~ev.threw /\ ev.worldbookMatched /\ ev.regexMatched
    /\ ev.enabled
    /\ ev.regexBefore.enabled
    /\ ev.regexBefore.script_name = REGEX_PREFIX \o <<"a">>
    /\ ev.regexBefore \in Range(regexes)
    /\ Len(regexes) = 2

\* the store with the entries other than the binding's, and the enabled flag
\* of the binding's entry, masked
OtherEntries(wbs, b) ==
    [n \in DOMAIN wbs |->
        [readable |-> wbs[n].readable,
         entries |-> [i \in DOMAIN wbs[n].entries |->
            IF n = b.worldbook_name /\ wbs[n].entries[i].uid = b.worldbook_entry_uid
            THEN [wbs[n].entries[i] EXCEPT !.enabled = FALSE]
            ELSE wbs[n].entries[i]]]]

OtherRules(regs, b) ==
    [i \in DOMAIN regs |->
        IF regs[i].id = b.regex_id
        THEN [regs[i] EXCEPT !.enabled = FALSE, !.script_name = <<>>]
        ELSE regs[i]]

\* C20: setBindingEnabled matches by identity, never by position, and touches
\* nothing else: it changes at most the enabled flag of the entry with the
\* binding's uid in the binding's worldbook, and the enabled flag and
\* script_name of the regex with the binding's regex_id; every other entry and
\* regex, the number and order of entries and regexes, the other worldbooks and
\* the registry are unchanged, whatever the order of the elements.
C20_ToggleFrame ==
    [][ev'.op = "setBindingEnabled" =>
        /\ OtherEntries(worldbooks', ev'.binding) = OtherEntries(worldbooks, ev'.binding)
        /\ OtherRules(regexes', ev'.binding) = OtherRules(regexes, ev'.binding)
        /\ \A n \in DOMAIN worldbooks :
            n # ev'.binding.worldbook_name => worldbooks'[n] = worldbooks[n]
        /\ bindings' = bindings
        /\ saved' = saved]_vars

\* both sides matched elements that are not at the position their number
\* would suggest: entry 2 is first in the worldbook, regex r2 first in the store
C20_Witness ==
    /\ ev.op = "setBindingEnabled"
    /\ ev.worldbookMatched /\ ev.regexMatched
    /\ ev.binding.worldbook_entry_uid = 2
    /\ ev.binding.regex_id = RuleId(2)
    /\ Len(worldbooks["wb1"].entries) = 2
    /\ worldbooks["wb1"].entries[1].uid = 2
    /\ worldbooks["wb1"].entries[1].enabled = ev.enabled
    /\ worldbooks["wb1"].entries[2].enabled # ev.enabled
    /\ Len(regexes) = 2
    /\ regexes[1].id = RuleId(2)
    /\ regexes[1].enabled = ev.enabled
    /\ regexes[2].enabled # ev.enabled

\* C21: the toggle action computes its target as NOT (worldbook_enabled is
\* true AND regex_enabled is true), null or false on either side counting as
\* not both enabled, and always attempts both sides; when both references
\* resolve and nobody else changes the stores during the action, both sides end
\* equal to the target: a drifted pair becomes both enabled, a pair that is
\* both enabled becomes both disabled.
C21_ToggleTargetsBothSides ==
    [][ev'.op = "toggle" =>
        LET b == ev'.binding
            before == getBindingLiveState(worldbooks, regexes, b)
            after == getBindingLiveState(worldbooks', regexes', b)
            bothEnabled == before.worldbook_enabled = "true"
                            /\ before.regex_enabled = "true"
        IN  /\ ev'.live = before
            /\ ev'.enabled = ~bothEnabled
            /\ ev'.regexIssued
            /\ (EntryExists(worldbooks, b) /\ RuleExists(regexes, b)) =>
                  /\ ev'.outcome = "ok"
                  /\ after.worldbook_enabled = Tri(ev'.enabled)
                  /\ after.regex_enabled = Tri(ev'.enabled)]_vars

\* C23: when setBindingEnabled ends with the error of having matched neither
\* side, both stores hold what they held before the call (no entry or regex
\* has another enabled flag or name), and the registry is unchanged and not
\* saved; the same when the toggle handler catches that error.
C23_ErrorLeavesStores ==
    [][((ev'.op = "setBindingEnabled" /\ ev'.threw)
            \/ (ev'.op = "toggle" /\ ev'.outcome = "error")) =>
        /\ ~ev'.worldbookMatched /\ ~ev'.regexMatched
        /\ worldbooks' = worldbooks
        /\ regexes' = regexes
        /\ bindings' = bindings
        /\ saved' = saved]_vars

\* the call went through both updaters and matched nothing, with an entry and
\* an unprefixed regex of other identities in the stores
C23_Witness ==
    /\ ev.op = "setBindingEnabled"
    /\ ev.threw
    /\ ev.regexIssued
    /\ worldbooks[ev.binding.worldbook_name].readable
    /\ Len(worldbooks[ev.binding.worldbook_name].entries) = 1
    /\ worldbooks[ev.binding.worldbook_name].entries[1].enabled # ev.enabled
    /\ Len(regexes) = 1
    /\ regexes[1].script_name = <<"a">>
    /\ regexes[1].enabled # ev.enabled

---------------------------------------------------------------------------
(* Import merger *)

\* String.prototype.trim, a blank being the character " "
RECURSIVE trimStart(_)
trimStart(s) == IF s # <<>> /\ Head(s) = " " THEN trimStart(Tail(s)) ELSE s

RECURSIVE trimEnd(_)
trimEnd(s) ==
    IF s # <<>> /\ s[Len(s)] = " " THEN trimEnd(SubSeq(s, 1, Len(s) - 1)) ELSE s

trim(s) == trimEnd(trimStart(s))

\* A parsed JSON payload is one of
\*   [kind |-> "array", items |-> <<...>>]
\*   [kind |-> "object", own |-> descriptor, regex_scripts |-> opt, data |-> opt]
\*       where opt is [isArray |-> BOOLEAN, items |-> <<...>>]
\*   [kind |-> "scalar"]                     a number, a string, true, null
\* and a descriptor is a record holding any of the fields script_name,
\* scriptName, name, title, or [isNull |-> TRUE] for a null array element.
NotArray == [isArray |-> FALSE, items |-> <<>>]

parseImportedRegexList(payload) ==
    IF payload.kind = "array" THEN payload.items
    ELSE IF payload.kind = "object" /\ payload.regex_scripts.isArray
         THEN payload.regex_scripts.items
    ELSE IF payload.kind = "object" /\ payload.data.isArray
         THEN payload.data.items
    ELSE IF payload.kind = "object" THEN <<payload.own>>
    ELSE <<>>

\* item.script_name ?? item.scriptName ?? item.name ?? item.title ?? '',
\* trimmed; reading a property of null throws
getRegexDisplayName(item) ==
    IF "isNull" \in DOMAIN item THEN [threw |-> TRUE, name |-> <<>>]
    ELSE [threw |-> FALSE,
          name |-> trim(IF "script_name" \in DOMAIN item THEN item.script_name
                        ELSE IF "scriptName" \in DOMAIN item THEN item.scriptName
                        ELSE IF "name" \in DOMAIN item THEN item.name
                        ELSE IF "title" \in DOMAIN item THEN item.title
                        ELSE <<>>)]

\* lines 112-123: the names inferred from the file's content; any exception
\* (JSON.parse, a null element) leaves the list empty
InferImportedNames(content) ==
    IF ~content.isJson THEN <<>>
    ELSE LET list == parseImportedRegexList(content.json)
             shown == [i \in DOMAIN list |-> getRegexDisplayName(list[i])]
         IN  IF \E i \in DOMAIN shown : shown[i].threw
             THEN <<>>
             ELSE SelectSeq([i \in DOMAIN shown |-> shown[i].name],
                            LAMBDA name : Len(name) > 0)

\* the updater of lines 131-147, from element i on with nameIndex names used
RECURSIVE RetagFrom(_, _, _, _, _)
RetagFrom(regs, beforeIds, importedNames, i, nameIndex) ==
    IF i > Len(regs) THEN <<>>
    ELSE IF regs[i].id \in beforeIds
         THEN <<regs[i]>> \o RetagFrom(regs, beforeIds, importedNames, i + 1, nameIndex)
         ELSE LET importedName ==
                      IF nameIndex + 1 <= Len(importedNames)
                      THEN importedNames[nameIndex + 1]
                      ELSE regs[i].script_name
              IN  <<[regs[i] EXCEPT !.script_name = ensureRegexPrefix(importedName)]>>
                  \o RetagFrom(regs, beforeIds, importedNames, i + 1, nameIndex + 1)

\* a plausible slip: the name index advances on every regex, new or not
RECURSIVE RetagFrom_everyIndex(_, _, _, _, _)
RetagFrom_everyIndex(regs, beforeIds, importedNames, i, nameIndex) ==
    IF i > Len(regs) THEN <<>>
    ELSE LET importedName ==
                 IF nameIndex + 1 <= Len(importedNames)
                 THEN importedNames[nameIndex + 1]
                 ELSE regs[i].script_name
         IN  <<[regs[i] EXCEPT !.script_name = ensureRegexPrefix(importedName)]>>
             \o RetagFrom_everyIndex(regs, beforeIds, importedNames, i + 1, nameIndex + 1)

\* a plausible slip: a new regex is renamed only when an inferred name is left
RECURSIVE RetagFrom_inferredOnly(_, _, _, _, _)
RetagFrom_inferredOnly(regs, beforeIds, importedNames, i, nameIndex) ==
    IF i > Len(regs) THEN <<>>
    ELSE IF regs[i].id \in beforeIds \/ nameIndex + 1 > Len(importedNames)
         THEN <<regs[i]>>
              \o RetagFrom_inferredOnly(regs, beforeIds, importedNames, i + 1, nameIndex)
         ELSE <<[regs[i] EXCEPT !.script_name =
                    ensureRegexPrefix(importedNames[nameIndex + 1])]>>
              \o RetagFrom_inferredOnly(regs, beforeIds, importedNames, i + 1, nameIndex + 1)

RetagNewRegexes_inferredOnly(regs, beforeIds, importedNames) ==
    RetagFrom_inferredOnly(regs, beforeIds, importedNames, 1, 0)

\* a plausible slip: the name is taken by the regex's position in the store
RECURSIVE RetagFrom_position(_, _, _, _, _)
RetagFrom_position(regs, beforeIds, importedNames, i, nameIndex) ==
    IF i > Len(regs) THEN <<>>
    ELSE IF regs[i].id \in beforeIds
         THEN <<regs[i]>>
              \o RetagFrom_position(regs, beforeIds, importedNames, i + 1, nameIndex + 1)
         ELSE LET importedName ==
                      IF nameIndex + 1 <= Len(importedNames)
                      THEN importedNames[nameIndex + 1]
                      ELSE regs[i].script_name
              IN  <<[regs[i] EXCEPT !.script_name = ensureRegexPrefix(importedName)]>>
                  \o RetagFrom_position(regs, beforeIds, importedNames, i + 1, nameIndex + 1)

RetagNewRegexes_position(regs, beforeIds, importedNames) ==
    RetagFrom_position(regs, beforeIds, importedNames, 1, 0)

\* a plausible slip: every regex of the store is retagged, pre-existing or not
RetagNewRegexes_all(regs, beforeIds, importedNames) ==
    RetagFrom_everyIndex(regs, beforeIds, importedNames, 1, 0)

RetagNewRegexes(regs, beforeIds, importedNames) ==
    RetagFrom(regs, beforeIds, importedNames, 1, 0)

\* a plausible slip: the failure of the raw import is not looked at
AfterRawImport_unchecked(ingested, imported, beforeIds, importedNames) ==
    RetagNewRegexes(ingested, beforeIds, importedNames)

\* lines 126-147: the store after importRawTavernRegex returned `imported`
AfterRawImport(ingested, imported, beforeIds, importedNames) ==
    IF ~imported
    THEN ingested
    ELSE RetagNewRegexes(ingested, beforeIds, importedNames)

\* importRawTavernRegex: the host adds the file's regexes, with ids the store
\* does not hold yet, to its list
Ingest(regs, new, atFront) == IF atFront THEN new \o regs ELSE regs \o new

\* importRegexFromFile, the whole handler
importRegexFromFile(file, new, atFront, imported) ==
    LET beforeIds == {regexes[i].id : i \in DOMAIN regexes}
        importedNames == InferImportedNames(file.content)
        ingested == Ingest(regexes, new, atFront)
        after == AfterRawImport(ingested, imported, beforeIds, importedNames)
    IN  /\ events < MaxEvents
        /\ events' = events + 1
        /\ IF ~file.chosen \/ ~file.textOk
           THEN
             /\ ev' = [op |-> "import",
                       outcome |-> IF file.chosen THEN "unread" ELSE "nofile"]
             /\ UNCHANGED <<worldbooks, regexes, bindings, saved, nextId, cr, tg, rn>>
           ELSE
             /\ \A i \in DOMAIN new : new[i].id \notin beforeIds
             /\ regexes' = after
             /\ ev' = [op |-> "import",
                       outcome |-> IF imported THEN "imported" ELSE "rejected",
                       content |-> file.content,
                       beforeIds |-> beforeIds,
                       ingested |-> ingested,
                       managed |-> Len(getManagedRegexes(after))]
             /\ UNCHANGED <<worldbooks, bindings, saved, nextId, cr, tg, rn>>

---------------------------------------------------------------------------
(* SpecImport: importRegexFromFile run once on every state of the regex     *)
(* store, with every file and every outcome of the raw import             *)

MaxNew == 2        \* a file brings at most MaxNew regexes

Json(payload) == [isJson |-> TRUE, json |-> payload]
NotJson == [isJson |-> FALSE]
ArrayOf(items) == [kind |-> "array", items |-> items]
ObjectOf(own, scripts, data) ==
    [kind |-> "object", own |-> own, regex_scripts |-> scripts, data |-> data]
ArrayField(items) == [isArray |-> TRUE, items |-> items]

NameB == <<"b">>
NameC == <<" ", "c", " ">>

\* file contents of every shape parseImportedRegexList tells apart
ImportContents ==
    { NotJson,
      Json([kind |-> "scalar"]),
      Json(ArrayOf(<<>>)),
      Json(ArrayOf(<<[script_name |-> NameB]>>)),
      Json(ArrayOf(<<[name |-> NameC], [title |-> REGEX_PREFIX \o NameB]>>)),
      Json(ArrayOf(<<[script_name |-> <<>>, name |-> NameB], [scriptName |-> NameC]>>)),
      Json(ArrayOf(<<[name |-> NameB], [isNull |-> TRUE]>>)),
      Json(ObjectOf([name |-> NameC], ArrayField(<<[script_name |-> NameB]>>),
                    ArrayField(<<[script_name |-> NameC]>>))),
      Json(ObjectOf([name |-> NameC], NotArray, ArrayField(<<[title |-> NameB]>>))),
      Json(ObjectOf([scriptName |-> NameB], NotArray, NotArray)),
      Json(ObjectOf([id |-> "x"], NotArray, NotArray)) }

ImportFiles ==
    {[chosen |-> FALSE, textOk |-> FALSE, content |-> NotJson],
     [chosen |-> TRUE, textOk |-> FALSE, content |-> NotJson]}
    \cup {[chosen |-> TRUE, textOk |-> TRUE, content |-> c] : c \in ImportContents}

\* the ids the store does not hold, lowest first
FreshIndexes(regs) ==
    {i \in 1..(MaxRules + MaxNew) : \A j \in DOMAIN regs : regs[j].id # RuleId(i)}

RECURSIVE NthFresh(_, _)
NthFresh(S, k) ==
    LET m == CHOOSE x \in S : \A y \in S : x <= y
    IN  IF k = 1 THEN m ELSE NthFresh(S \ {m}, k - 1)

\* what a file can add: up to MaxNew regexes under fresh ids, each with the
\* name the host gave it, all enabled or all disabled
NewRuleLists(regs) ==
    LET fresh == FreshIndexes(regs)
        most == IF Cardinality(fresh) < MaxNew THEN Cardinality(fresh) ELSE MaxNew
    IN  UNION {{[k \in 1..n |-> [id |-> RuleId(NthFresh(fresh, k)),
                                 script_name |-> given[k],
                                 enabled |-> e]] :
                    given \in [1..n -> ScriptNames], e \in BOOLEAN} :
               n \in 0..most}

SomeBinding ==
    [id |-> 1, label |-> <<"wb1", " / ", "hp">>, worldbook_name |-> "wb1",
     worldbook_entry_uid |-> 1, worldbook_entry_name |-> "hp",
     regex_id |-> RuleId(1), regex_script_name |-> REGEX_PREFIX \o <<"a">>]

InitImport ==
    /\ worldbooks = [n \in WbNames |-> OtherWorldbook]
    /\ regexes \in RuleLists
    /\ bindings = <<SomeBinding>>
    /\ saved = <<SomeBinding>>
    /\ nextId = 2
    /\ cr = <<>>
    /\ tg = NoTask
    /\ rn = NoTask
    /\ ev = [op |-> "init"]
    /\ events = 0

\* one run of the handler per behaviour: the store states it can start from are
\* the initial states
NextImport ==
    \E new \in NewRuleLists(regexes) : \E file \in ImportFiles :
        \E atFront \in BOOLEAN : \E imported \in BOOLEAN :
            /\ ev.op = "init"
            /\ importRegexFromFile(file, new, atFront, imported)

SpecImport == InitImport /\ [][NextImport]_vars

\* C9: when the raw import reports failure, importRegexFromFile rewrites
\* nothing: the regex list is as the raw import left it, every regex that was
\* there before keeps its fields, and the registry and its saved copy are
\* unchanged.
C9_RejectedImportChangesNothing ==
    [][(ev'.op = "import" /\ ev'.outcome = "rejected") =>
        /\ regexes' = ev'.ingested
        /\ SelectSeq(regexes', LAMBDA r : r.id \in ev'.beforeIds) = regexes
        /\ bindings' = bindings
        /\ saved' = saved
        /\ worldbooks' = worldbooks]_vars

C9_Witness ==
    /\ ev.op = "import"
    /\ ev.outcome = "rejected"
    /\ InferImportedNames(ev.content) # <<>>
    /\ \E i \in DOMAIN regexes :
            /\ regexes[i].id \notin ev.beforeIds
            /\ ~startsWith(regexes[i].script_name, REGEX_PREFIX)
    /\ bindings # <<>>

\* C10: a successful import leaves every regex whose id was in the store
\* before the raw import exactly as the raw import left it, keeps the order of
\* all regexes, and spends no inferred name on a pre-existing regex: the k-th
\* new regex gets the k-th inferred name.
C10_PreexistingUntouched ==
    (ev.op = "import" /\ ev.outcome = "imported") =>
        LET ing == ev.ingested
            names == InferImportedNames(ev.content)
            newUpTo(i) == {j \in 1..i : ing[j].id \notin ev.beforeIds}
        IN  /\ Len(regexes) = Len(ing)
            /\ \A i \in DOMAIN ing :
                /\ regexes[i].id = ing[i].id
                /\ ing[i].id \in ev.beforeIds => regexes[i] = ing[i]
                /\ (ing[i].id \notin ev.beforeIds
                        /\ Cardinality(newUpTo(i)) <= Len(names))
                    => regexes[i].script_name =
                            ensureRegexPrefix(names[Cardinality(newUpTo(i))])

C10_Witness ==
    /\ ev.op = "import"
    /\ ev.outcome = "imported"
    /\ InferImportedNames(ev.content) # <<>>
    /\ \E i, j \in DOMAIN regexes :
            /\ i < j
            /\ regexes[i].id \in ev.beforeIds
            /\ ~startsWith(regexes[i].script_name, REGEX_PREFIX)
            /\ regexes[j].id \notin ev.beforeIds

\* the new regexes of a list, in store order
NewRules(regs, beforeIds) == SelectSeq(regs, LAMBDA r : r.id \notin beforeIds)

\* C11: after a successful import every new regex (id not among the ids held
\* before the raw import) has a script_name that starts with the prefix, so it
\* is in the managed subset; when the content is not JSON or yields no usable
\* name, each new regex is named ensureRegexPrefix of the name the store gave it.
C11_NewRulesManaged ==
    (ev.op = "import" /\ ev.outcome = "imported") =>
        /\ Len(regexes) = Len(ev.ingested)
        /\ \A i \in DOMAIN regexes :
            regexes[i].id \notin ev.beforeIds =>
                /\ startsWith(regexes[i].script_name, REGEX_PREFIX)
                /\ regexes[i] \in Range(getManagedRegexes(regexes))
                /\ InferImportedNames(ev.content) = <<>> =>
                     regexes[i].script_name =
                        ensureRegexPrefix(ev.ingested[i].script_name)

\* the content was not JSON and the store had named a new regex without the prefix
C11_Witness ==
    /\ ev.op = "import"
    /\ ev.outcome = "imported"
    /\ ~ev.content.isJson
    /\ \E i \in DOMAIN regexes :
            /\ regexes[i].id \notin ev.beforeIds
            /\ ~startsWith(ev.ingested[i].script_name, REGEX_PREFIX)

\* C12: on a successful import, with N the inferred names and R the new
\* regexes in store order, the k-th new regex is named ensureRegexPrefix(N[k])
\* when N has a k-th name and ensureRegexPrefix of its own name otherwise; a
\* name is used at most once and never on a pre-existing regex.
C12_NamesAssignedInOrder ==
    (ev.op = "import" /\ ev.outcome = "imported") =>
        LET N == InferImportedNames(ev.content)
            before == NewRules(ev.ingested, ev.beforeIds)
            R == NewRules(regexes, ev.beforeIds)
        IN  /\ Len(R) = Len(before)
            /\ \A k \in DOMAIN R :
                /\ R[k].id = before[k].id
                /\ R[k].enabled = before[k].enabled
                /\ R[k].script_name =
                     IF k <= Len(N) THEN ensureRegexPrefix(N[k])
                     ELSE ensureRegexPrefix(before[k].script_name)
            /\ SelectSeq(regexes, LAMBDA r : r.id \in ev.beforeIds)
                 = SelectSeq(ev.ingested, LAMBDA r : r.id \in ev.beforeIds)

\* more new regexes than inferred names, after a pre-existing regex
C12_Witness ==
    /\ ev.op = "import"
    /\ ev.outcome = "imported"
    /\ Len(InferImportedNames(ev.content)) = 1
    /\ Len(NewRules(regexes, ev.beforeIds)) = 2
    /\ regexes[1].id \in ev.beforeIds
    /\ NewRules(regexes, ev.beforeIds)[2].script_name = REGEX_PREFIX \o <<"a">>
    /\ NewRules(ev.ingested, ev.beforeIds)[2].script_name = <<"a">>

---------------------------------------------------------------------------
(* Binding registry *)

\* Number(...) of an entry select without a numeric value
NaN == -1

\* saveSettings: the registry handed to the durable save
saveSettings(bs) == bs

\* a plausible slip: the binding is appended without the duplicate test
RECURSIVE AppendForEntry_nodup(_, _, _, _, _, _)
AppendForEntry_nodup(acc, wbItem, entry, regexSel, managedRegexes, k) ==
    IF k > Len(regexSel) THEN acc
    ELSE LET regexIdItem == regexSel[k]
             r == getRegexById(managedRegexes, regexIdItem)
         IN  IF r = 0
             THEN AppendForEntry_nodup(acc, wbItem, entry, regexSel, managedRegexes, k + 1)
             ELSE AppendForEntry_nodup(
                    [bindings |-> Append(acc.bindings,
                        [id |-> acc.nextId,
                         label |-> <<wbItem.worldbookName, " / ",
                                     IF entry.name # "" THEN entry.name
                                     ELSE UidStr(entry.uid)>>,
                         worldbook_name |-> wbItem.worldbookName,
                         worldbook_entry_uid |-> entry.uid,
                         worldbook_entry_name |->
                            IF entry.name # "" THEN entry.name ELSE UnnamedEntry(entry.uid),
                         regex_id |-> managedRegexes[r].id,
                         regex_script_name |-> managedRegexes[r].script_name]),
                     nextId |-> acc.nextId + 1,
                     createdCount |-> acc.createdCount + 1],
                    wbItem, entry, regexSel, managedRegexes, k + 1)

\* lines 462-488: the inner loop over the selected regex ids for one resolved
\* entry; acc is [bindings, nextId, createdCount]
RECURSIVE AppendForEntry(_, _, _, _, _, _)
AppendForEntry(acc, wbItem, entry, regexSel, managedRegexes, k) ==
    IF k > Len(regexSel) THEN acc
    ELSE LET regexIdItem == regexSel[k]
             r == getRegexById(managedRegexes, regexIdItem)
             duplicate ==
                \E i \in DOMAIN acc.bindings :
                    /\ acc.bindings[i].worldbook_name = wbItem.worldbookName
                    /\ acc.bindings[i].worldbook_entry_uid = wbItem.entryUid
                    /\ acc.bindings[i].regex_id = regexIdItem
         IN  IF r = 0 \/ duplicate
             THEN AppendForEntry(acc, wbItem, entry, regexSel, managedRegexes, k + 1)
             ELSE AppendForEntry(
                    [bindings |-> Append(acc.bindings,
                        [id |-> acc.nextId,
                         label |-> <<wbItem.worldbookName, " / ",
                                     IF entry.name # "" THEN entry.name
                                     ELSE UidStr(entry.uid)>>,
                         worldbook_name |-> wbItem.worldbookName,
                         worldbook_entry_uid |-> entry.uid,
                         worldbook_entry_name |->
                            IF entry.name # "" THEN entry.name ELSE UnnamedEntry(entry.uid),
                         regex_id |-> managedRegexes[r].id,
                         regex_script_name |-> managedRegexes[r].script_name]),
                     nextId |-> acc.nextId + 1,
                     createdCount |-> acc.createdCount + 1],
                    wbItem, entry, regexSel, managedRegexes, k + 1)

\* lines 456-488: one round of the outer loop, run when the worldbook read of
\* wbItem returns; threw when the read fails
CreateRound(wbs, bs, ids, wbItem, regexSel, managedRegexes) ==
    LET read == getWorldbook(wbs, wbItem.worldbookName)
        e == findEntry(read.entries, wbItem.entryUid)
        none == [bindings |-> bs, nextId |-> ids, createdCount |-> 0]
    IN  IF read.threw THEN [threw |-> TRUE, acc |-> none]
        ELSE IF e = 0 THEN [threw |-> FALSE, acc |-> none]
        ELSE [threw |-> FALSE,
              acc |-> AppendForEntry(none, wbItem, read.entries[e], regexSel,
                                     managedRegexes, 1)]

\* lines 442-445: the filters on the selected rows
validWorldbookSelections(wbSel) ==
    SelectSeq(wbSel, LAMBDA item : item.worldbookName # "" /\ item.entryUid # NaN)

validRegexSelections(regexSel) == SelectSeq(regexSel, LAMBDA item : item # "")

\* a plausible slip: the text of the popup is not trimmed
promptText_notrim(result) ==
    IF result.cancelled
    THEN [isNull |-> TRUE, text |-> <<>>]
    ELSE [isNull |-> FALSE, text |-> result.text]

\* promptText: null when the popup is cancelled, the trimmed text otherwise
promptText(result) ==
    IF result.cancelled
    THEN [isNull |-> TRUE, text |-> <<>>]
    ELSE [isNull |-> FALSE, text |-> trim(result.text)]

\* settings.bindings.find(item => item.id === id): index, 0 for undefined
findBinding(bs, id) ==
    IF \E i \in DOMAIN bs : bs[i].id = id
    THEN CHOOSE i \in DOMAIN bs : bs[i].id = id /\ \A j \in 1..(i - 1) : bs[j].id # id
    ELSE 0

---------------------------------------------------------------------------
(* Spec: the manager panel. Every click handler runs from suspension point  *)
(* to suspension point; other handlers and changes made to the two stores   *)
(* from outside come in between.                                            *)


Sel(name, uid) == [worldbookName |-> name, entryUid |-> uid]

\* what the worldbook rows of the panel can hold when createBinding is clicked
WorldbookSelections ==
    { <<Sel("wb1", 1)>>,
      <<Sel("wb1", 1), Sel("wb2", 1)>>,
      <<Sel("wb1", 1), Sel("wb1", 1)>>,
      <<Sel("", NaN), Sel("wb1", 2)>>,
      <<Sel("", NaN)>> }

\* what the regex rows can hold
RegexSelections == { <<RuleId(1)>>, <<RuleId(1), RuleId(2)>>, <<"">> }

\* what the user can answer to the rename prompt
PromptResults ==
    { [cancelled |-> TRUE, text |-> <<>>],
      [cancelled |-> FALSE, text |-> <<>>],
      [cancelled |-> FALSE, text |-> <<" ">>],
      [cancelled |-> FALSE, text |-> <<" ", "x">>] }

InitialWorldbooks ==
    [n \in WbNames |->
        IF n = "wb1"
        THEN [readable |-> TRUE,
              entries |-> <<[uid |-> 1, name |-> EntryNameOf(1), enabled |-> TRUE],
                            [uid |-> 2, name |-> EntryNameOf(2), enabled |-> FALSE]>>]
        ELSE OtherWorldbook]

InitialRegexes ==
    << [id |-> RuleId(1), script_name |-> REGEX_PREFIX \o <<"a">>, enabled |-> FALSE],
       [id |-> RuleId(2), script_name |-> <<"a">>, enabled |-> TRUE] >>

\* loadSettings: the registry as the settings store holds it
Init ==
    /\ worldbooks = InitialWorldbooks
    /\ regexes = InitialRegexes
    /\ bindings \in {<<>>, <<SomeBinding>>}
    /\ saved = bindings
    /\ nextId = Len(bindings) + 1
    /\ cr = <<>>
    /\ tg = NoTask
    /\ rn = NoTask
    /\ ev = [op |-> "init"]
    /\ events = 0

RemoveAt(s, h) == SubSeq(s, 1, h - 1) \o SubSeq(s, h + 1, Len(s))

\* createBindingFromSelection, lines 419-456: up to the first worldbook read
CreateClick(wbSel, regexSel) ==
    LET validWb == validWorldbookSelections(wbSel)
        validRegex == validRegexSelections(regexSel)
    IN  /\ events < MaxEvents
        /\ Len(cr) < MaxCreates
        /\ events' = events + 1
        /\ IF Len(validWb) = 0 \/ Len(validRegex) = 0
           THEN /\ ev' = [op |-> "create", outcome |-> "warned", createdCount |-> 0,
                          wbSel |-> validWb, regexSel |-> validRegex]
                /\ cr' = cr
           ELSE /\ ev' = [op |-> "createClick"]
                /\ cr' = Append(cr, [wbSel |-> validWb, regexSel |-> validRegex,
                                     managedRegexes |-> getManagedRegexes(regexes),
                                     i |-> 1, createdCount |-> 0])
        /\ UNCHANGED <<worldbooks, regexes, bindings, saved, nextId, tg, rn>>

\* createBindingFromSelection, lines 456-498: the worldbook read of row i
\* returns; the round runs, and after the last round the handler ends
CreateResume(h) ==
    LET t == cr[h]
        round == CreateRound(worldbooks, bindings, nextId, t.wbSel[t.i],
                             t.regexSel, t.managedRegexes)
        count == t.createdCount + round.acc.createdCount
        last == t.i = Len(t.wbSel)
    IN  /\ round.acc.nextId <= MaxIds + 1
        /\ IF round.threw
           THEN \* the rejection leaves the handler; nothing is saved
                /\ cr' = RemoveAt(cr, h)
                /\ ev' = [op |-> "create", outcome |-> "error",
                          createdCount |-> t.createdCount,
                          wbSel |-> t.wbSel, regexSel |-> t.regexSel]
                /\ UNCHANGED <<bindings, saved, nextId>>
           ELSE /\ bindings' = round.acc.bindings
                /\ nextId' = round.acc.nextId
                /\ IF ~last
                   THEN /\ cr' = [cr EXCEPT ![h].i = t.i + 1,
                                            ![h].createdCount = count]
                        /\ ev' = [op |-> "createRound"]
                        /\ saved' = saved
                   ELSE /\ cr' = RemoveAt(cr, h)
                        /\ ev' = [op |-> "create",
                                  outcome |-> IF count = 0 THEN "none" ELSE "created",
                                  createdCount |-> count,
                                  wbSel |-> t.wbSel, regexSel |-> t.regexSel]
                        /\ saved' = IF count = 0 THEN saved
                                    ELSE saveSettings(round.acc.bindings)
        /\ UNCHANGED <<worldbooks, regexes, tg, rn, events>>

\* a plausible slip: the binding is removed by its position in the list
DeleteBinding_byPosition(id) ==
    /\ events < MaxEvents
    /\ events' = events + 1
    /\ bindings' = IF id \in DOMAIN bindings
                   THEN [i \in 1..(Len(bindings) - 1) |->
                            IF i < id THEN bindings[i] ELSE bindings[i + 1]]
                   ELSE bindings
    /\ saved' = saveSettings(bindings')
    /\ ev' = [op |-> "delete", id |-> id]
    /\ UNCHANGED <<worldbooks, regexes, nextId, cr, tg, rn>>

\* the deleteBinding handler, lines 617-620
DeleteBinding(id) ==
    /\ events < MaxEvents
    /\ events' = events + 1
    /\ bindings' = SelectSeq(bindings, LAMBDA item : item.id # id)
    /\ saved' = saveSettings(bindings')
    /\ ev' = [op |-> "delete", id |-> id]
    /\ UNCHANGED <<worldbooks, regexes, nextId, cr, tg, rn>>

\* the renameStyle handler, lines 625-632: up to the prompt
RenameClick(id) ==
    /\ events < MaxEvents
    /\ rn = NoTask
    /\ events' = events + 1
    /\ IF findBinding(bindings, id) = 0
       THEN /\ ev' = [op |-> "rename", outcome |-> "unknown", id |-> id]
            /\ rn' = rn
       ELSE /\ ev' = [op |-> "renameClick"]
            /\ rn' = [pc |-> "prompt", id |-> id]
    /\ UNCHANGED <<worldbooks, regexes, bindings, saved, nextId, cr, tg>>

\* a plausible slip: the binding to relabel is taken by its position
RenameAnswer_byPosition(result) ==
    LET renamed == promptText(result)
    IN  /\ rn # NoTask
        /\ rn' = NoTask
        /\ IF renamed.isNull \/ renamed.text = <<>>
           THEN /\ ev' = [op |-> "rename", outcome |-> "no change", id |-> rn.id,
                          result |-> result]
                /\ UNCHANGED <<bindings, saved>>
           ELSE /\ bindings' = [i \in DOMAIN bindings |->
                                    IF i = rn.id
                                    THEN [bindings[i] EXCEPT !.label = renamed.text]
                                    ELSE bindings[i]]
                /\ saved' = saveSettings(bindings')
                /\ ev' = [op |-> "rename", outcome |-> "renamed", id |-> rn.id,
                          result |-> result]
        /\ UNCHANGED <<worldbooks, regexes, nextId, cr, tg, events>>

\* the renameStyle handler, lines 632-638: the prompt returns. `binding` is the
\* object found at the click, which is in the registry unless deleted since.
RenameAnswer(result) ==
    LET renamed == promptText(result)
    IN  /\ rn # NoTask
        /\ rn' = NoTask
        /\ IF renamed.isNull \/ renamed.text = <<>>
           THEN /\ ev' = [op |-> "rename", outcome |-> "no change", id |-> rn.id,
                          result |-> result]
                /\ UNCHANGED <<bindings, saved>>
           ELSE /\ bindings' = [i \in DOMAIN bindings |->
                                    IF bindings[i].id = rn.id
                                    THEN [bindings[i] EXCEPT !.label = renamed.text]
                                    ELSE bindings[i]]
                /\ saved' = saveSettings(bindings')
                /\ ev' = [op |-> "rename", outcome |-> "renamed", id |-> rn.id,
                          result |-> result]
        /\ UNCHANGED <<worldbooks, regexes, nextId, cr, tg, events>>

\* the toggleBinding handler, lines 597-604: up to the live-state read
ToggleClick(id) ==
    /\ events < MaxEvents
    /\ tg = NoTask
    /\ events' = events + 1
    /\ IF findBinding(bindings, id) = 0
       THEN /\ ev' = [op |-> "toggle", outcome |-> "unknown"]
            /\ tg' = tg
       ELSE /\ ev' = [op |-> "toggleClick"]
            /\ tg' = [pc |-> "live", binding |-> bindings[findBinding(bindings, id)]]
    /\ UNCHANGED <<worldbooks, regexes, bindings, saved, nextId, cr, rn>>

\* lines 604-607: the live state returns, the target is computed and
\* setBindingEnabled starts its worldbook update
ToggleLive ==
    LET live == getBindingLiveState(worldbooks, regexes, tg.binding)
        targetEnabled ==
            ~(live.worldbook_enabled = "true" /\ live.regex_enabled = "true")
    IN  /\ tg.pc = "live"
        /\ tg' = [pc |-> "worldbook", binding |-> tg.binding,
                  enabled |-> targetEnabled, live |-> live]
        /\ ev' = [op |-> "toggleLive"]
        /\ UNCHANGED <<worldbooks, regexes, bindings, saved, nextId, cr, rn, events>>

\* setBindingEnabled, lines 185-193, and the handler's catch, lines 609-612
ToggleSetWorldbook ==
    /\ tg.pc = "worldbook"
    /\ LET w == SetWorldbookSide(worldbooks, tg.binding, tg.enabled)
       IN  IF w.threw
           THEN /\ tg' = NoTask
                /\ ev' = [op |-> "toggle", outcome |-> "error",
                          binding |-> tg.binding, enabled |-> tg.enabled,
                          live |-> tg.live, regexIssued |-> FALSE,
                          worldbookMatched |-> FALSE, regexMatched |-> FALSE]
                /\ worldbooks' = worldbooks
           ELSE /\ tg' = [pc |-> "regex", binding |-> tg.binding,
                          enabled |-> tg.enabled, live |-> tg.live,
                          worldbookMatched |-> w.worldbookMatched]
                /\ ev' = [op |-> "toggleWorldbook"]
                /\ worldbooks' = w.worldbooks
    /\ UNCHANGED <<regexes, bindings, saved, nextId, cr, rn, events>>

\* setBindingEnabled, lines 195-207, and the handler's try/catch
ToggleSetRegex ==
    /\ tg.pc = "regex"
    /\ LET r == SetRegexSide(regexes, tg.binding, tg.enabled)
       IN  /\ regexes' = r.regexes
           /\ ev' = [op |-> "toggle",
                     outcome |-> IF NeitherMatched(tg.worldbookMatched, r.regexMatched)
                                 THEN "error" ELSE "ok",
                     binding |-> tg.binding, enabled |-> tg.enabled,
                     live |-> tg.live, regexIssued |-> TRUE,
                     worldbookMatched |-> tg.worldbookMatched,
                     regexMatched |-> r.regexMatched]
    /\ tg' = NoTask
    /\ UNCHANGED <<worldbooks, bindings, saved, nextId, cr, rn, events>>

\* the files and raw-import results the panel's import is run with
PanelFiles ==
    {[chosen |-> TRUE, textOk |-> TRUE, content |-> c] :
        c \in {NotJson, Json(ArrayOf(<<[script_name |-> NameB]>>))}}

PanelNewRules(regs) ==
    {new \in NewRuleLists(regs) :
        Len(new) <= 1 /\ \A k \in DOMAIN new :
            new[k].script_name = <<"a">> /\ ~new[k].enabled}

(* Changes made to the stores from outside the panel *)

ExtWorldbookGone(name) ==
    /\ events < MaxEvents
    /\ worldbooks[name].readable
    /\ events' = events + 1
    /\ worldbooks' = [worldbooks EXCEPT ![name] = Unreadable]
    /\ ev' = [op |-> "external"]
    /\ UNCHANGED <<regexes, bindings, saved, nextId, cr, tg, rn>>

ExtRemoveEntry(name, uid) ==
    /\ events < MaxEvents
    /\ \E i \in DOMAIN worldbooks[name].entries : worldbooks[name].entries[i].uid = uid
    /\ events' = events + 1
    /\ worldbooks' = [worldbooks EXCEPT ![name].entries =
                        SelectSeq(@, LAMBDA entry : entry.uid # uid)]
    /\ ev' = [op |-> "external"]
    /\ UNCHANGED <<regexes, bindings, saved, nextId, cr, tg, rn>>

\* a regex renamed so that it loses the prefix
ExtRenameRegex(i) ==
    /\ events < MaxEvents
    /\ startsWith(regexes[i].script_name, REGEX_PREFIX)
    /\ events' = events + 1
    /\ regexes' = [regexes EXCEPT ![i].script_name =
                        SubSeq(@, Len(REGEX_PREFIX) + 1, Len(@))]
    /\ ev' = [op |-> "external"]
    /\ UNCHANGED <<worldbooks, bindings, saved, nextId, cr, tg, rn>>

ExtRemoveRegex(i) ==
    /\ events < MaxEvents
    /\ events' = events + 1
    /\ regexes' = RemoveAt(regexes, i)
    /\ ev' = [op |-> "external"]
    /\ UNCHANGED <<worldbooks, bindings, saved, nextId, cr, tg, rn>>

Next ==
    \/ \E wbSel \in WorldbookSelections : \E regexSel \in RegexSelections :
            CreateClick(wbSel, regexSel)
    \/ \E h \in DOMAIN cr : CreateResume(h)
    \/ \E id \in 1..MaxIds : DeleteBinding(id)
    \/ \E id \in 1..MaxIds : RenameClick(id)
    \/ \E result \in PromptResults : RenameAnswer(result)
    \/ \E id \in 1..MaxIds : ToggleClick(id)
    \/ ToggleLive
    \/ ToggleSetWorldbook
    \/ ToggleSetRegex
    \/ \E new \in PanelNewRules(regexes) : \E file \in PanelFiles :
        \E imported \in BOOLEAN : importRegexFromFile(file, new, FALSE, imported)
    \/ \E name \in WbNames : ExtWorldbookGone(name)
    \/ \E uid \in Uids : ExtRemoveEntry("wb1", uid)
    \/ \E i \in DOMAIN regexes : ExtRenameRegex(i)
    \/ \E i \in DOMAIN regexes : ExtRemoveRegex(i)

Spec == Init /\ [][Next]_vars

---------------------------------------------------------------------------
(* Claims about the registry, checked under Spec *)

SameTuple(a, b) ==
    /\ a.worldbook_name = b.worldbook_name
    /\ a.worldbook_entry_uid = b.worldbook_entry_uid
    /\ a.regex_id = b.regex_id

\* C1: in every state reachable by create, rename, delete, toggle and import
\* operations from a registry without duplicates, creates that interleave at
\* the worldbook read included, no two bindings of the registry have the same
\* (worldbook_name, worldbook_entry_uid, regex_id) tuple.
C1_NoDuplicateTuples ==
    \A i, j \in DOMAIN bindings : SameTuple(bindings[i], bindings[j]) => i = j

\* a create ended without a new binding because the tuple it selected had been
\* appended by another create, which is still in flight
C1_Witness ==
    /\ ev.op = "create" /\ ev.outcome = "none"
    /\ Len(cr) = 1 /\ cr[1].createdCount = 1
    /\ Len(bindings) = 1
    /\ bindings[1].worldbook_name = ev.wbSel[1].worldbookName
    /\ bindings[1].worldbook_entry_uid = ev.wbSel[1].entryUid
    /\ bindings[1].regex_id = ev.regexSel[1]
    /\ saved = <<>>

\* C7: whenever no create, rename or delete is in progress, the in-memory
\* registry equals the registry last passed to the save, and a create that
\* fails midway has left the in-memory registry as it was when it started.
C7_RegistrySavedWhenQuiescent ==
    /\ (cr = <<>> /\ rn = NoTask) => bindings = saved
    /\ (ev.op = "create" /\ ev.outcome = "error") => ev.createdCount = 0

\* C8: create never ends with an error because a reference is unresolvable: a
\* selected pair whose worldbook cannot be read or whose entry is not found is
\* skipped, and the operation ends with the count of bindings appended.
C8_CreateNeverErrors ==
    ev.op = "create" => ev.outcome \in {"warned", "none", "created"}

\* C14: create appends a binding only if, when the binding is appended, the
\* entry with its uid exists in the named worldbook and the regex with its id
\* is in the managed subset of the regex store, also when the regex store has
\* changed while create was suspended on a worldbook read.
C14_AppendedOnlyIfResolved ==
    [][\A i \in DOMAIN bindings' :
          (\A j \in DOMAIN bindings : bindings[j].id # bindings'[i].id) =>
              /\ EntryExists(worldbooks', bindings'[i])
              /\ getRegexById(getManagedRegexes(regexes'), bindings'[i].regex_id) # 0]_vars

\* C15: delete(id) with an id no binding has leaves the registry unchanged
\* (same bindings, same order, same length) and raises no error; delete(id)
\* with a known id removes exactly that binding and leaves every other binding
\* unchanged and in the same relative order.
C15_DeleteFrame ==
    [][ev'.op = "delete" =>
        IF findBinding(bindings, ev'.id) = 0
        THEN bindings' = bindings
        ELSE LET k == findBinding(bindings, ev'.id)
             IN  /\ Len(bindings') = Len(bindings) - 1
                 /\ \A i \in DOMAIN bindings' :
                        bindings'[i] = IF i < k THEN bindings[i] ELSE bindings[i + 1]
                 /\ findBinding(bindings', ev'.id) = 0]_vars

\* the first of two bindings has been deleted, the other one is left
C15_Witness ==
    /\ ev.op = "delete"
    /\ ev.id = 1
    /\ Len(bindings) = 1
    /\ bindings[1].id = 2
    /\ saved = bindings

\* C16: rename changes nothing and does not save when the id is unknown, when
\* the prompt is cancelled, or when the new label is empty or only whitespace;
\* otherwise it sets only the label of the binding with that id, to the
\* trimmed text, and saves.
C16_RenameFrame ==
    [][ev'.op = "rename" =>
        IF ev'.outcome = "unknown"
        THEN /\ findBinding(bindings, ev'.id) = 0
             /\ bindings' = bindings /\ saved' = saved
        ELSE IF ev'.result.cancelled \/ trim(ev'.result.text) = <<>>
        THEN bindings' = bindings /\ saved' = saved
        ELSE /\ Len(bindings') = Len(bindings)
             /\ \A i \in DOMAIN bindings :
                    bindings'[i] =
                        IF bindings[i].id = ev'.id
                        THEN [bindings[i] EXCEPT !.label = trim(ev'.result.text)]
                        ELSE bindings[i]
             /\ saved' = bindings']_vars

\* a label typed with a leading space has been stored trimmed
C16_Witness ==
    /\ ev.op = "rename"
    /\ ev.outcome = "renamed"
    /\ ev.result.text = <<" ", "x">>
    /\ \E i \in DOMAIN bindings : bindings[i].id = ev.id /\ bindings[i].label = <<"x">>
    /\ saved = bindings

\* C22: a binding's id, worldbook_name, worldbook_entry_uid and regex_id never
\* change after the binding is created, under any sequence of create, rename,
\* toggle, import and delete operations; rename changes only the label of the
\* one target binding, and no two bindings of the registry share an id.
C22_IdentityImmutable ==
    [][/\ \A i \in DOMAIN bindings' : \A j \in DOMAIN bindings :
            bindings'[i].id = bindings[j].id =>
                /\ bindings'[i].worldbook_name = bindings[j].worldbook_name
                /\ bindings'[i].worldbook_entry_uid = bindings[j].worldbook_entry_uid
                /\ bindings'[i].regex_id = bindings[j].regex_id
                /\ bindings'[i] # bindings[j] =>
                      /\ ev'.op = "rename" /\ ev'.outcome = "renamed"
                      /\ ev'.id = bindings[j].id
                      /\ bindings'[i] =
                            [bindings[j] EXCEPT !.label = trim(ev'.result.text)]
       /\ \A i, j \in DOMAIN bindings' :
            bindings'[i].id = bindings'[j].id => i = j
       /\ \A i \in DOMAIN bindings' : bindings'[i].id < nextId']_vars

\* the second of two bindings has been renamed; the first, created before it,
\* has been deleted since
C22_Witness ==
    /\ ev.op = "rename"
    /\ ev.outcome = "renamed"
    /\ ev.id = 2
    /\ Len(bindings) = 1
    /\ bindings[1].id = 2
    /\ bindings[1].label = <<"x">>
    /\ nextId = 3

---------------------------------------------------------------------------
(* SpecCreate: createBindingFromSelection run to its end, one run after the  *)
(* other, on every state of the two stores, with the stores left alone       *)

\* lines 455-489: the rounds of the outer loop from row i on
RECURSIVE CreateRounds(_, _, _, _, _, _)
CreateRounds(wbs, acc, validWb, validRegex, managedRegexes, i) ==
    IF i > Len(validWb) THEN [threw |-> FALSE, acc |-> acc]
    ELSE LET round == CreateRound(wbs, acc.bindings, acc.nextId, validWb[i],
                                  validRegex, managedRegexes)
         IN  IF round.threw THEN [threw |-> TRUE, acc |-> acc]
             ELSE CreateRounds(wbs,
                    [bindings |-> round.acc.bindings,
                     nextId |-> round.acc.nextId,
                     createdCount |-> acc.createdCount + round.acc.createdCount],
                    validWb, validRegex, managedRegexes, i + 1)

\* createBindingFromSelection with nothing running in between
createBindingFromSelection(wbs, regs, bs, ids, toSave, wbSel, regexSel) ==
    LET validWb == validWorldbookSelections(wbSel)
        validRegex == validRegexSelections(regexSel)
        run == CreateRounds(wbs, [bindings |-> bs, nextId |-> ids, createdCount |-> 0],
                            validWb, validRegex, getManagedRegexes(regs), 1)
    IN  IF Len(validWb) = 0 \/ Len(validRegex) = 0
        THEN [outcome |-> "warned", bindings |-> bs, nextId |-> ids,
              saved |-> toSave, createdCount |-> 0]
        ELSE IF run.threw
        THEN [outcome |-> "error", bindings |-> run.acc.bindings,
              nextId |-> run.acc.nextId, saved |-> toSave,
              createdCount |-> run.acc.createdCount]
        ELSE IF run.acc.createdCount = 0
        THEN [outcome |-> "none", bindings |-> run.acc.bindings,
              nextId |-> run.acc.nextId, saved |-> toSave, createdCount |-> 0]
        ELSE [outcome |-> "created", bindings |-> run.acc.bindings,
              nextId |-> run.acc.nextId, saved |-> saveSettings(run.acc.bindings),
              createdCount |-> run.acc.createdCount]

InitCreate ==
    /\ worldbooks \in {[n \in WbNames |-> IF n = "wb1" THEN w ELSE OtherWorldbook] :
                            w \in WorldbookStates}
    /\ regexes \in RuleLists
    /\ bindings \in {<<>>, <<SomeBinding>>}
    /\ saved = bindings
    /\ nextId = Len(bindings) + 1
    /\ cr = <<>>
    /\ tg = NoTask
    /\ rn = NoTask
    /\ ev = [op |-> "init"]
    /\ events = 0

CallCreate(wbSel, regexSel) ==
    LET res == createBindingFromSelection(worldbooks, regexes, bindings, nextId,
                                          saved, wbSel, regexSel)
    IN  /\ res.nextId <= MaxIds + 1
        /\ bindings' = res.bindings
        /\ nextId' = res.nextId
        /\ saved' = res.saved
        /\ ev' = [op |-> "create", outcome |-> res.outcome,
                  createdCount |-> res.createdCount,
                  wbSel |-> validWorldbookSelections(wbSel),
                  regexSel |-> validRegexSelections(regexSel),
                  again |-> /\ ev.op = "create"
                            /\ ev.wbSel = validWorldbookSelections(wbSel)
                            /\ ev.regexSel = validRegexSelections(regexSel)]
        /\ UNCHANGED <<worldbooks, regexes, cr, tg, rn, events>>

NextCreate ==
    \E wbSel \in WorldbookSelections : \E regexSel \in RegexSelections :
        CallCreate(wbSel, regexSel)

SpecCreate == InitCreate /\ [][NextCreate]_vars

\* the selection is one worldbook row and one regex row, the entry exists and
\* the regex is managed
OneResolvablePair(wbs, regs, wbSel, regexSel) ==
    /\ Len(wbSel) = 1 /\ Len(regexSel) = 1
    /\ findEntry(getWorldbook(wbs, wbSel[1].worldbookName).entries, wbSel[1].entryUid) # 0
    /\ getRegexById(getManagedRegexes(regs), regexSel[1]) # 0

Bound(bs, wbSel, regexSel) ==
    \E i \in DOMAIN bs :
        /\ bs[i].worldbook_name = wbSel[1].worldbookName
        /\ bs[i].worldbook_entry_uid = wbSel[1].entryUid
        /\ bs[i].regex_id = regexSel[1]

\* C13: create run twice in a row with the same selection of one resolvable
\* (worldbook, entry) pair and one managed regex, the stores unchanged: the
\* first run appends exactly one binding (createdCount 1) and saves, the second
\* appends none (createdCount 0), leaves the registry unchanged and does not save.
C13_CreateTwice ==
    [][ev'.op = "create"
         /\ OneResolvablePair(worldbooks, regexes, ev'.wbSel, ev'.regexSel) =>
        /\ ~Bound(bindings, ev'.wbSel, ev'.regexSel) =>
              /\ ev'.outcome = "created" /\ ev'.createdCount = 1
              /\ Len(bindings') = Len(bindings) + 1
              /\ SubSeq(bindings', 1, Len(bindings)) = bindings
              /\ Bound(bindings', ev'.wbSel, ev'.regexSel)
              /\ saved' = bindings'
        /\ (ev'.again /\ ev.outcome = "created") =>
              /\ ev.createdCount = 1
              /\ ev'.outcome = "none" /\ ev'.createdCount = 0
              /\ bindings' = bindings
              /\ saved' = saved]_vars

\* the second of two runs with the same one-pair selection has ended
C13_Witness ==
    /\ ev.op = "create"
    /\ ev.again
    /\ ev.createdCount = 0
    /\ OneResolvablePair(worldbooks, regexes, ev.wbSel, ev.regexSel)
    /\ Len(bindings) = 2
    /\ bindings[2].id = 2
    /\ Bound(<<bindings[2]>>, ev.wbSel, ev.regexSel)
    /\ saved = bindings

---------------------------------------------------------------------------
(* SpecPrefix: ensureRegexPrefix applied, again and again, to the name of a  *)
(* regex, for every name of the bound                                        *)

MaxNameLen == 3    \* characters of a name, the prefix not counted

\* the characters of the prefix and one that is not in it
Alphabet == Range(REGEX_PREFIX) \cup {"a"}

\* short names, names that begin with a part of the prefix, and names that
\* begin with the prefix, once or twice
ScriptNameInputs ==
    SeqsUpTo(Alphabet, MaxNameLen)
    \cup {SubSeq(REGEX_PREFIX, 1, k) \o t :
            k \in 1..Len(REGEX_PREFIX), t \in SeqsUpTo(Alphabet, MaxNameLen - 2)}
    \cup {REGEX_PREFIX \o REGEX_PREFIX \o t : t \in SeqsUpTo(Alphabet, MaxNameLen - 2)}
    \cup {<<" ">> \o REGEX_PREFIX \o t : t \in SeqsUpTo(Alphabet, MaxNameLen - 2)}

InitPrefix ==
    /\ worldbooks = [n \in WbNames |-> OtherWorldbook]
    /\ regexes \in {<<[id |-> RuleId(1), script_name |-> x, enabled |-> FALSE]>> :
                        x \in ScriptNameInputs}
    /\ bindings = <<>>
    /\ saved = <<>>
    /\ nextId = 1
    /\ cr = <<>>
    /\ tg = NoTask
    /\ rn = NoTask
    /\ ev = [op |-> "init"]
    /\ events = 0

CallEnsureRegexPrefix ==
    /\ regexes' = [regexes EXCEPT ![1].script_name = ensureRegexPrefix(@)]
    /\ ev' = [op |-> "ensureRegexPrefix",
              scriptName |-> regexes[1].script_name,
              result |-> ensureRegexPrefix(regexes[1].script_name)]
    /\ UNCHANGED <<worldbooks, bindings, saved, nextId, cr, tg, rn, events>>

NextPrefix == CallEnsureRegexPrefix

SpecPrefix == InitPrefix /\ [][NextPrefix]_vars

BeginsWithPrefix(x) ==
    /\ Len(x) >= Len(REGEX_PREFIX)
    /\ \A i \in DOMAIN REGEX_PREFIX : x[i] = REGEX_PREFIX[i]

\* C19: ensureRegexPrefix is idempotent and total: for every string x,
\* ensureRegexPrefix(ensureRegexPrefix(x)) = ensureRegexPrefix(x); the result
\* always starts with the prefix, and is x unchanged when x already starts
\* with the prefix (the prefix followed by x otherwise).
C19_EnsureRegexPrefixIdempotent ==
    ev.op = "ensureRegexPrefix" =>
        /\ ev.result \in Seq(Alphabet)
        /\ ensureRegexPrefix(ev.result) = ev.result
        /\ BeginsWithPrefix(ev.result)
        /\ BeginsWithPrefix(ev.scriptName) => ev.result = ev.scriptName
        /\ ~BeginsWithPrefix(ev.scriptName) => ev.result = REGEX_PREFIX \o ev.scriptName
        /\ regexes[1].script_name = ev.result

\* the function has been applied to its own result: a name that begins with
\* the prefix twice came back unchanged
C19_Witness ==
    /\ ev.op = "ensureRegexPrefix"
    /\ ev.scriptName = REGEX_PREFIX \o REGEX_PREFIX \o <<"a">>
    /\ ev.result = ev.scriptName

=============================================================================
